---- MODULE Spec2Model ----
(***************************************************************************)
(* A model of the neks emulator core: the ALU (src/src/cpu/alu.rs), the    *)
(* CPU execution engine (src/src/cpu/mod.rs), the memory bus               *)
(* (src/src/memory.rs) and the PPU register bank and timing engine         *)
(* (src/src/ppu/mod.rs, src/src/ppu/register.rs).                          *)
(*                                                                         *)
(* The Rust code is sequential: every method runs to completion.  Each     *)
(* method is an operator that takes the state it works on and returns the  *)
(* state it leaves; an action applies one public operation to the          *)
(* variables.  A panic leaves the state with fault = TRUE, after which no  *)
(* action is enabled.                                                      *)
(***************************************************************************)
EXTENDS Integers, Sequences, FiniteSets, TLC

VARIABLES
    cpu,    \* CPU: registers, PC, ALU, address_line, opcode, next_opcode
    bus,    \* MemoryBus: memory, rom_data, cycles, and the PPU it owns
    cart,   \* the cartridge's program-ROM bytes that have been determined
    fault,  \* TRUE once a panic! has ended the process
    checked, \* whether the build checks integer overflow (debug) or wraps
    hist,   \* history: the last operation, its inputs and what it returned
    nops,   \* history: number of operations performed (bounds the runs)
    arg,    \* inputs of the pure function under check
    res     \* its result, once it has been applied

vars == <<cpu, bus, cart, fault, checked, hist, nops, arg, res>>

----------------------------------------------------------------------------
(* u8 / u16 arithmetic and bit operations *)

Byte == 0..255

Bit(x, k) == (x \div (2 ^ k)) % 2

\* & on unsigned integers, bit by bit from the lowest
RECURSIVE BitAnd(_, _)
BitAnd(x, y) ==
    IF x = 0 \/ y = 0 THEN 0
    ELSE (x % 2) * (y % 2) + 2 * BitAnd(x \div 2, y \div 2)

BitOr(x, y) == x + y - BitAnd(x, y)

BitXor(x, y) == x + y - 2 * BitAnd(x, y)

\* Rust's !b on a u8
BitNot(x) == 255 - x

\* & on u16
BitAnd16(x, y) == BitAnd(x % 65536, y % 65536)

\* Rust evaluates a statement once and the next statement sees its result:
\* F applied to the value of v
Then(v, F(_)) == CHOOSE r \in {F(x) : x \in {v}} : TRUE

----------------------------------------------------------------------------
(* cpu/register.rs: Flags, a bitflags! struct over u8 *)

Flag_N == 1
Flag_V == 2
Flag_B == 8
Flag_D == 16
Flag_I == 32
Flag_Z == 64
Flag_C == 128

\* the union of the declared flags: what from_bits_truncate keeps
Flags_all == Flag_N + Flag_V + Flag_B + Flag_D + Flag_I + Flag_Z + Flag_C

\* from_bits_unchecked: every bit of the byte is kept
Flags_from_unchecked(value) == value

\* impl From<u8> for Flags: from_bits_truncate
Flags_from(value) == BitAnd(value, Flags_all)

\* impl From<Flags> for u8: flags.bits
u8_from(flags) == flags

Flags_contains(flags, f) == BitAnd(flags, f) = f

Flags_insert(flags, f) == BitOr(flags, f)

Flags_remove(flags, f) == BitAnd(flags, BitNot(f))

Flags_set(flags, f, value) ==
    IF value THEN Flags_insert(flags, f) ELSE Flags_remove(flags, f)

----------------------------------------------------------------------------
(* cpu/alu.rs *)

\* the carry of the second addition is dropped
adc_first_carry_only(a, b, carry_in) ==
    LET value == (a + b + (IF carry_in THEN 1 ELSE 0)) % 256
    IN  [value |-> value,
         carry |-> a + b >= 256,
         overflow |-> BitAnd(BitAnd(BitXor(a, value), BitXor(b, value)), 128) = 0]

\* fn adc(a, b, carry_in) -> (value, carry_out, overflow)
adc(a, b, carry_in) ==
    LET v1 == (a + b) % 256
        c1 == a + b >= 256
        v2 == (v1 + 1) % 256
        c2 == v1 + 1 >= 256
        value == IF carry_in THEN v2 ELSE v1
        carry_out == IF carry_in THEN c1 \/ c2 ELSE c1
        \* in Rust & binds tighter than ==
        overflow == BitAnd(BitAnd(BitXor(a, value), BitXor(b, value)), 128) = 0
    IN  [value |-> value, carry |-> carry_out, overflow |-> overflow]

\* fn ror(a, carry_in) -> (shifted, carry_out); overflowing_shr(1) reports
\* whether the shift amount reached the bit width, which 1 never does
ror(a, carry_in) ==
    [value |-> BitOr(a \div 2, IF carry_in THEN 128 ELSE 0), carry |-> FALSE]

\* ALU::new
ALU_new ==
    [input_a |-> 0, input_b |-> 0, carry_in |-> FALSE, flags |-> Flags_from(0),
     output |-> 0, carry_out |-> FALSE, overflow_out |-> FALSE]

\* ALU::adc(&mut self, a, b)
ALU_adc(alu, a, b) ==
    Then(adc(a, b, alu.carry_in), LAMBDA r :
      [alu EXCEPT !.carry_out = r.carry, !.overflow_out = r.overflow,
                  !.output = r.value])

----------------------------------------------------------------------------
(* Byte arrays ([u8; N]).  An array is its fill value and the cells that   *)
(* differ from it, so that equal arrays are equal values.                  *)

Array_new(fill) == [def |-> fill, m |-> <<>>]

Array_get(arr, i) == IF i \in DOMAIN arr.m THEN arr.m[i] ELSE arr.def

Array_put(arr, i, v) ==
    LET keep == IF v = arr.def THEN DOMAIN arr.m \ {i} ELSE DOMAIN arr.m \cup {i}
    IN  [arr EXCEPT !.m = IF keep = {} THEN <<>>
                          ELSE [j \in keep |-> IF j = i THEN v ELSE arr.m[j]]]

----------------------------------------------------------------------------
(* ppu/register.rs *)

ControlRegister1_all == 191
ControlRegister2_all == 247
StatusRegister_all == 224
StatusRegister_VBLANK == 128

\* InternalRegister::init
InternalRegister_init == [coarse_x |-> 0, y |-> 0, nametable |-> 0]

\* InternalRegister::set_low_address
set_low_address(r, value) ==
    [r EXCEPT !.coarse_x = BitAnd(value, 31),
              !.y = BitOr(BitAnd(r.y, 199), BitAnd(value, 224) \div 4)]

\* InternalRegister::set_high_address
set_high_address(r, value) ==
    [r EXCEPT !.y = BitOr(BitAnd(r.y, 56),
                          BitOr(BitAnd(value, 112) \div 16,
                                (BitAnd(value, 3) * 64) % 256))]

\* InternalRegister::write_x_scroll
write_x_scroll(r, value) == [r EXCEPT !.coarse_x = BitAnd(value, 248) \div 8]

\* InternalRegister::write_y_scroll
write_y_scroll(r, value) == [r EXCEPT !.y = value]

\* RegisterBank::init
RegisterBank_init ==
    [cr1 |-> 0, cr2 |-> 0, status |-> 0,
     sprite_address |-> 0, sprite_data |-> 0, ppu_data |-> 0,
     fine_x_scroll |-> 0, first_write |-> TRUE,
     t |-> InternalRegister_init, v |-> InternalRegister_init]

\* the vertical-blank bit is left as it is
read_status_keeps_vblank(rb) ==
    [rb |-> [rb EXCEPT !.first_write = TRUE], ret |-> rb.status]

\* RegisterBank::read_status: the bits as they were, then both side effects
read_status(rb) ==
    [rb |-> [rb EXCEPT !.first_write = TRUE,
                       !.status = BitAnd(rb.status, BitNot(StatusRegister_VBLANK))],
     ret |-> rb.status]

\* RegisterBank::set_vblank
set_vblank(rb) == [rb EXCEPT !.status = BitOr(rb.status, StatusRegister_VBLANK)]

\* RegisterBank::write_cr1 / write_cr2: from_bits_truncate
write_cr1(rb, bits) == [rb EXCEPT !.cr1 = BitAnd(bits, ControlRegister1_all)]

write_cr2(rb, bits) == [rb EXCEPT !.cr2 = BitAnd(bits, ControlRegister2_all)]

\* RegisterBank::write_sprite_address
write_sprite_address(rb, bits) == [rb EXCEPT !.sprite_address = bits]

\* RegisterBank::write_sprite_data
write_sprite_data(rb, bits) == [rb EXCEPT !.sprite_data = bits]

\* RegisterBank::write_ppu_scroll; first_write && false is false
write_ppu_scroll(rb, bits) ==
    LET rb1 == IF rb.first_write
               THEN [rb EXCEPT !.t = write_x_scroll(rb.t, bits),
                               !.fine_x_scroll = BitAnd(bits, 7)]
               ELSE [rb EXCEPT !.t = write_y_scroll(rb.t, bits)]
    IN  [rb1 EXCEPT !.first_write = rb.first_write /\ FALSE]

\* RegisterBank::write_ppu_address
write_ppu_address(rb, bits) ==
    LET rb1 == IF rb.first_write
               THEN [rb EXCEPT !.t = set_high_address(rb.t, bits)]
               ELSE [rb EXCEPT !.t = set_low_address(rb.t, bits)]
    IN  [rb1 EXCEPT !.first_write = rb.first_write /\ FALSE]

\* RegisterBank::write_ppu_data
write_ppu_data(rb, bits) == [rb EXCEPT !.ppu_data = bits]

----------------------------------------------------------------------------
(* ppu/mod.rs *)

OAM_SIZE == 256
VBLANK_SCANLINE == 241
LAST_CYCLE == 340
LAST_SCANLINE == 310

\* PPU::init
PPU_init ==
    [registers |-> RegisterBank_init,
     oam_address |-> 0, oam_data |-> [i \in 0..(OAM_SIZE - 1) |-> 255],
     cpu_cycles |-> 0, scanline |-> 0, cycles |-> 0]

\* PPU::read_register -> the byte returned, and the PPU after the read
read_register(ppu, address) ==
    CASE address = 2 ->
           Then(read_status(ppu.registers), LAMBDA r :
             [ppu |-> [ppu EXCEPT !.registers = r.rb], ret |-> r.ret])
      [] address = 4 -> [ppu |-> ppu, ret |-> ppu.registers.sprite_data]
      [] address = 7 -> [ppu |-> ppu, ret |-> ppu.registers.ppu_data]
      [] OTHER -> [ppu |-> ppu, ret |-> 0]

\* PPU::tick: one internal tick
PPU_tick(ppu) ==
    LET rb == IF ppu.scanline = VBLANK_SCANLINE
              THEN set_vblank(ppu.registers) ELSE ppu.registers
    IN  IF ppu.cycles = LAST_CYCLE
        THEN [ppu EXCEPT !.registers = rb, !.cycles = 0,
                         !.scanline = IF ppu.scanline = LAST_SCANLINE
                                      THEN 0 ELSE ppu.scanline + 1]
        ELSE [ppu EXCEPT !.registers = rb, !.cycles = ppu.cycles + 1]

\* PPU::step: three internal ticks, and a fourth when cpu_cycles % 5 == 0
PPU_step(ppu) ==
    LET n == (ppu.cpu_cycles + 1) % 65536
    IN  Then(PPU_tick(PPU_tick(PPU_tick([ppu EXCEPT !.cpu_cycles = n]))), LAMBDA p3 :
          IF n % 5 = 0 THEN PPU_tick(p3) ELSE p3)

\* PPU::write_register -> the PPU after the write; fault on the panic! arm
write_register(ppu, address, value) ==
    LET rb == ppu.registers
        to(r) == [ppu |-> [ppu EXCEPT !.registers = r], fault |-> FALSE]
    IN  CASE address = 0 -> to(write_cr1(rb, value))
          [] address = 1 -> to(write_cr2(rb, value))
          [] address = 2 -> to(rb)
          [] address = 3 -> to(write_sprite_address(rb, value))
          [] address = 4 -> to(write_sprite_data(rb, value))
          [] address = 5 -> to(write_ppu_scroll(rb, value))
          [] address = 6 -> to(write_ppu_address(rb, value))
          [] address = 7 -> to(write_ppu_data(rb, value))
          [] OTHER -> [ppu |-> ppu, fault |-> TRUE]

\* PPU::write_oam_address
write_oam_address(ppu, address) == [ppu EXCEPT !.oam_address = address]

\* PPU::write_oam_data
write_oam_data(ppu, data) ==
    [ppu EXCEPT !.oam_data[ppu.oam_address] = data,
                !.oam_address = (ppu.oam_address + 1) % 256]

----------------------------------------------------------------------------
(* memory.rs: MemoryBus.  An operation returns the bus it leaves, the byte *)
(* it returns (ret) and whether it panicked (fault).                       *)

RAM_SIZE == 2048
ROM_BASE == 32768
OAMDMA == 16404

\* MemoryBus::init
MemoryBus_init ==
    [memory |-> Array_new(0), rom_data |-> Array_new(0),
     ppu |-> PPU_init, cycles |-> 0]

\* the PPU is not stepped
tick_without_step(b) == [b EXCEPT !.cycles = (b.cycles + 1) % 256]

\* MemoryBus::tick
tick(b) == [b EXCEPT !.cycles = (b.cycles + 1) % 256, !.ppu = PPU_step(b.ppu)]

\* MemoryBus::read_byte
read_byte(b, address) ==
    CASE address < 4 * RAM_SIZE ->
           [bus |-> b, ret |-> Array_get(b.memory, address % RAM_SIZE),
            fault |-> FALSE]
      [] address >= 8192 /\ address <= 16383 ->
           Then(read_register(b.ppu, BitAnd(address % 256, 7)), LAMBDA r :
             [bus |-> [b EXCEPT !.ppu = r.ppu], ret |-> r.ret, fault |-> FALSE])
      [] address >= ROM_BASE ->
           [bus |-> b, ret |-> Array_get(b.rom_data, address - ROM_BASE),
            fault |-> FALSE]
      [] OTHER -> [bus |-> b, ret |-> 0, fault |-> TRUE]

\* one iteration of the loop of MemoryBus::write_dma: read, tick, store, tick
write_dma_byte(b, offset, i) ==
    Then(read_byte(b, 256 * offset + i), LAMBDA r :
      IF r.fault THEN r
      ELSE Then(tick(r.bus), LAMBDA b1 :
             [bus |-> tick([b1 EXCEPT !.ppu = write_oam_data(b1.ppu, r.ret)]),
              ret |-> 0, fault |-> FALSE]))

\* the iterations i = first .. last of the loop, in ascending order (the range
\* is halved so that the evaluation does not nest once per iteration)
RECURSIVE write_dma_range(_, _, _, _)
write_dma_range(b, offset, first, last) ==
    IF first = last THEN write_dma_byte(b, offset, first)
    ELSE Then(write_dma_range(b, offset, first, (first + last) \div 2), LAMBDA r :
           IF r.fault THEN r
           ELSE write_dma_range(r.bus, offset, (first + last) \div 2 + 1, last))

DMA_FIRST == 1
DMA_END == 256

\* MemoryBus::write_dma: an idle tick on an odd cycle, then for i in 1..256
write_dma(b, offset) ==
    write_dma_range(IF b.cycles % 2 = 1 THEN tick(b) ELSE b, offset,
                    DMA_FIRST, DMA_END - 1)

\* MemoryBus::write_byte
\* only 0x000-0x7ff reaches the RAM, a write to a mirror is dropped
write_byte_unmirrored(b, address, value) ==
    IF address < RAM_SIZE
    THEN [bus |-> [b EXCEPT !.memory = Array_put(b.memory, address, value)],
          ret |-> 0, fault |-> FALSE]
    ELSE [bus |-> b, ret |-> 0, fault |-> FALSE]

\* an address that maps to nothing reaches the RAM like a mirror
write_byte_unmapped_to_ram(b, address, value) ==
    IF address < 4 * RAM_SIZE \/ (address > 16383 /\ address < ROM_BASE /\ address # OAMDMA)
    THEN [bus |-> [b EXCEPT !.memory = Array_put(b.memory, address % RAM_SIZE, value)],
          ret |-> 0, fault |-> FALSE]
    ELSE IF address = OAMDMA THEN write_dma(b, value)
    ELSE IF address >= ROM_BASE
    THEN [bus |-> [b EXCEPT !.rom_data =
                              Array_put(b.rom_data, address - ROM_BASE, value)],
          ret |-> 0, fault |-> FALSE]
    ELSE Then(write_register(b.ppu, BitAnd(address % 256, 15), value), LAMBDA r :
           [bus |-> [b EXCEPT !.ppu = r.ppu], ret |-> 0, fault |-> r.fault])

write_byte(b, address, value) ==
    CASE address < 4 * RAM_SIZE ->
           [bus |-> [b EXCEPT !.memory = Array_put(b.memory, address % RAM_SIZE, value)],
            ret |-> 0, fault |-> FALSE]
      [] address >= 8192 /\ address <= 16383 ->
           Then(write_register(b.ppu, BitAnd(address % 256, 15), value), LAMBDA r :
             [bus |-> [b EXCEPT !.ppu = r.ppu], ret |-> 0, fault |-> r.fault])
      [] address = OAMDMA -> write_dma(b, value)
      [] address >= ROM_BASE ->
           [bus |-> [b EXCEPT !.rom_data =
                                 Array_put(b.rom_data, address - ROM_BASE, value)],
            ret |-> 0, fault |-> FALSE]
      [] OTHER -> [bus |-> b, ret |-> 0, fault |-> FALSE]

\* the access is made and the clock is left alone
read_without_tick(b, address) == read_byte(b, address)

\* MemoryBus::read: the access, then one tick
read(b, address) ==
    Then(read_byte(b, address), LAMBDA r :
      IF r.fault THEN r ELSE [r EXCEPT !.bus = tick(r.bus)])

\* MemoryBus::write: the access, then one tick
write(b, address, value) ==
    Then(write_byte(b, address, value), LAMBDA r :
      IF r.fault THEN r ELSE [r EXCEPT !.bus = tick(r.bus)])

----------------------------------------------------------------------------
(* cpu/alu.rs: ALU::do_arithmetic.  The result is the ALU it leaves; the   *)
(* pair it returns is (alu.output, alu.flags) of that ALU.                 *)

Ops == {"Adc", "And", "Asl", "Cmp", "Dec", "Eor", "Inc", "Or", "Rol", "Ror", "Sbc"}

\* the match of do_arithmetic
do_arithmetic_match(alu, op) ==
    CASE op = "Adc" ->
           Then(ALU_adc([alu EXCEPT !.carry_in = Flags_contains(alu.flags, Flag_C)],
                        alu.input_a, alu.input_b), LAMBDA x :
             [x EXCEPT !.flags = Flags_set(Flags_set(x.flags, Flag_C, x.carry_out),
                                           Flag_V, x.overflow_out)])
      [] op = "And" -> [alu EXCEPT !.output = BitAnd(alu.input_a, alu.input_b)]
      [] op = "Asl" ->
           ALU_adc([alu EXCEPT !.carry_in = FALSE], alu.input_a, alu.input_a)
      [] op = "Cmp" ->
           Then(ALU_adc([alu EXCEPT !.carry_in = FALSE],
                        alu.input_a, BitNot(alu.input_b)), LAMBDA x :
             [x EXCEPT !.flags = Flags_set(x.flags, Flag_C, x.carry_out)])
      [] op = "Dec" -> ALU_adc(alu, alu.input_a, 255)
      [] op = "Eor" -> [alu EXCEPT !.output = BitXor(alu.input_a, alu.input_b)]
      [] op = "Inc" -> ALU_adc(alu, alu.input_a, 1)
      [] op = "Or" -> [alu EXCEPT !.output = BitOr(alu.input_a, alu.input_b)]
      [] op = "Rol" -> ALU_adc(alu, alu.input_a, alu.input_a)
      [] op = "Ror" ->
           Then(ror(alu.input_a, alu.carry_in), LAMBDA r :
             [alu EXCEPT !.output = r.value, !.carry_out = r.carry])
      [] op = "Sbc" ->
           Then(ALU_adc([alu EXCEPT !.carry_in = Flags_contains(alu.flags, Flag_C)],
                        alu.input_a, BitNot(alu.input_b)), LAMBDA x :
             [x EXCEPT !.flags = Flags_set(Flags_set(x.flags, Flag_C, x.carry_out),
                                           Flag_V, x.overflow_out)])

\* ALU::do_arithmetic
do_arithmetic(alu, op) ==
    LET flags == IF op = "Asl" THEN Flag_C ELSE Flags_from(0)
    IN  Then(do_arithmetic_match(alu, op), LAMBDA a1 :
        Then(IF Flags_contains(flags, Flag_C)
             THEN [a1 EXCEPT !.flags = Flags_set(a1.flags, Flag_C, a1.carry_out)]
             ELSE a1, LAMBDA a2 :
        Then(IF Flags_contains(flags, Flag_V)
             THEN [a2 EXCEPT !.flags = Flags_set(a2.flags, Flag_V, a2.overflow_out)]
             ELSE a2, LAMBDA a3 :
        Then(IF a3.output = 0
             THEN [a3 EXCEPT !.flags = Flags_insert(a3.flags, Flag_Z)]
             ELSE a3, LAMBDA a4 :
        IF BitAnd(a4.output, 128) = 128
        THEN [a4 EXCEPT !.flags = Flags_insert(a4.flags, Flag_N)] ELSE a4))))

----------------------------------------------------------------------------
(* cpu/mod.rs.  A CPU method works on m = [cpu, bus, fault, ret, acc,      *)
(* checked]: the CPU and its bus, whether a panic has happened, the byte   *)
(* the last read returned, the log of the memory accesses made (history),  *)
(* and whether the build checks integer overflow (debug) or wraps.         *)

\* self.memory.read_byte(address)
mem_read(m0, address) ==
    Then(m0, LAMBDA m :
      IF m.fault THEN m
      ELSE Then(read_byte(m.bus, address), LAMBDA r :
             [m EXCEPT !.bus = r.bus, !.ret = r.ret, !.fault = r.fault,
                       !.acc = Append(m.acc, <<"r", address>>)]))

\* self.memory.write_byte(address, value)
mem_write(m0, address, value) ==
    Then(m0, LAMBDA m :
      IF m.fault THEN m
      ELSE Then(write_byte(m.bus, address, value), LAMBDA r :
             [m EXCEPT !.bus = r.bus, !.fault = r.fault,
                       !.acc = Append(m.acc, <<"w", address, value>>)]))

\* self.PC += 1 and self.PC -= 1 on a u16: a checked build panics on overflow
pc_add(m0, d) ==
    Then(m0, LAMBDA m :
      IF m.fault THEN m
      ELSE IF m.cpu.PC + d \in 0..65535 THEN [m EXCEPT !.cpu.PC = m.cpu.PC + d]
      ELSE IF m.checked THEN [m EXCEPT !.fault = TRUE]
      ELSE [m EXCEPT !.cpu.PC = (m.cpu.PC + d) % 65536])

\* CPU::prev
prev(m0) == pc_add(m0, -1)

\* CPU::next: the byte at PC is in ret
next(m0) == Then(m0, LAMBDA m : pc_add(mem_read(m, m.cpu.PC), 1))

\* self.alu.do_arithmetic(op)
alu_do(m0, op) ==
    Then(m0, LAMBDA m :
      IF m.fault THEN m ELSE [m EXCEPT !.cpu.alu = do_arithmetic(m.cpu.alu, op)])

Word(high, low) == high * 256 + low

\* the operand of Absolute, AbsoluteX, AbsoluteY and Indirect:
\* low = self.next_opcode; high = self.next()
fetch_operand16(m0) ==
    Then(m0, LAMBDA m :
    Then(next(m), LAMBDA m1 :
      [m1 EXCEPT !.ret = Word(m1.ret, m.cpu.next_opcode)]))

\* the two reads of an indirect pointer: low byte, then high byte; the word
\* is in ret.  The address of the high byte is pointer + 1 on a u16.
read_pointer(m0, pointer) ==
    Then(mem_read(m0, pointer), LAMBDA m2 :
    Then(mem_read(m2, (pointer + 1) % 65536), LAMBDA m3 :
      [m3 EXCEPT !.ret = Word(m3.ret, m2.ret)]))

\* self.address_line = address
set_address_line(m0, address) ==
    Then(m0, LAMBDA m : IF m.fault THEN m ELSE [m EXCEPT !.cpu.address_line = address])

\* the zero-page index is added on 16 bits, the carry reaching the high byte
calculate_address_carrying(m0, address_mode) ==
    Then(m0, LAMBDA m :
      IF m.fault THEN m
      ELSE CASE address_mode = "ZeroPageX" ->
             set_address_line(m, m.cpu.next_opcode + m.cpu.X)
        [] address_mode = "ZeroPageY" ->
             set_address_line(m, m.cpu.next_opcode + m.cpu.Y)
        [] OTHER -> [m EXCEPT !.fault = TRUE])

\* CPU::calculate_address
calculate_address(m0, address_mode) ==
    Then(m0, LAMBDA m :
      IF m.fault THEN m
      ELSE CASE address_mode \in {"Accumulator", "Immediate"} -> [m EXCEPT !.fault = TRUE]
        [] address_mode = "ZeroPage" -> set_address_line(m, m.cpu.next_opcode)
        [] address_mode = "ZeroPageX" ->
             set_address_line(m, (m.cpu.next_opcode + m.cpu.X) % 256)
        [] address_mode = "ZeroPageY" ->
             set_address_line(m, (m.cpu.next_opcode + m.cpu.Y) % 256)
        [] address_mode = "Relative" ->
             Then(ALU_adc([m.cpu.alu EXCEPT !.carry_in = FALSE],
                          m.cpu.next_opcode, m.cpu.PC % 256), LAMBDA a1 :
             Then(ALU_adc([a1 EXCEPT !.carry_in = a1.carry_out],
                          IF BitAnd(m.cpu.next_opcode, 128) = 128 THEN 255 ELSE 0,
                          m.cpu.PC \div 256), LAMBDA a2 :
               [m EXCEPT !.cpu.alu = a2,
                         !.cpu.address_line = Word(a2.output, a1.output)]))
        [] address_mode = "Absolute" ->
             Then(fetch_operand16(m), LAMBDA m1 : set_address_line(m1, m1.ret))
        [] address_mode = "AbsoluteX" ->
             Then(fetch_operand16(m), LAMBDA m1 :
               set_address_line(m1, IF m1.ret + m1.cpu.X > 65535 THEN 65535
                                    ELSE m1.ret + m1.cpu.X))
        [] address_mode = "AbsoluteY" ->
             Then(fetch_operand16(m), LAMBDA m1 :
               set_address_line(m1, IF m1.ret + m1.cpu.Y > 65535 THEN 65535
                                    ELSE m1.ret + m1.cpu.Y))
        [] address_mode = "Indirect" ->
             Then(fetch_operand16(m), LAMBDA m1 :
             Then(read_pointer(m1, m1.ret), LAMBDA m3 :
               set_address_line(m3, m3.ret)))
        [] address_mode = "XIndirect" ->
             Then(read_pointer(m, (m.cpu.next_opcode + m.cpu.X) % 256), LAMBDA m3 :
               set_address_line(m3, m3.ret))
        [] address_mode = "IndirectY" ->
             Then(read_pointer(m, m.cpu.next_opcode), LAMBDA m3 :
               set_address_line(m3, (m3.ret + m3.cpu.Y) % 65536)))

\* the operand byte of load_alu_input_a / load_alu_input_b / load, in ret
operand(m0, address_mode) ==
    Then(m0, LAMBDA m :
      IF m.fault THEN m
      ELSE CASE address_mode = "Immediate" -> [m EXCEPT !.ret = m.cpu.next_opcode]
        [] address_mode = "Accumulator" -> [m EXCEPT !.ret = m.cpu.A]
        [] OTHER -> Then(calculate_address(m, address_mode), LAMBDA m1 :
                      mem_read(m1, m1.cpu.address_line)))

\* CPU::load_alu_input_b
load_alu_input_b(m0, address_mode) ==
    Then(operand(m0, address_mode), LAMBDA m1 :
      IF m1.fault THEN m1 ELSE [m1 EXCEPT !.cpu.alu.input_b = m1.ret])

\* CPU::load_alu_input_a
load_alu_input_a(m0, address_mode) ==
    Then(operand(m0, address_mode), LAMBDA m1 :
      IF m1.fault THEN m1 ELSE [m1 EXCEPT !.cpu.alu.input_a = m1.ret])

\* the ALU keeps the flags it had: P is not copied into alu.flags
do_accumulator_arithmetic_own_flags(m0, op) ==
    Then(m0, LAMBDA m :
      IF m.fault THEN m
      ELSE Then(do_arithmetic([m.cpu.alu EXCEPT !.input_a = m.cpu.A], op), LAMBDA alu :
             [m EXCEPT !.cpu.alu = alu, !.cpu.A = alu.output, !.cpu.P = alu.flags]))

\* CPU::do_accumulator_arithmetic
do_accumulator_arithmetic(m0, op) ==
    Then(m0, LAMBDA m :
      IF m.fault THEN m
      ELSE Then(do_arithmetic([m.cpu.alu EXCEPT !.input_a = m.cpu.A,
                                                !.flags = m.cpu.P], op), LAMBDA alu :
             [m EXCEPT !.cpu.alu = alu, !.cpu.A = alu.output, !.cpu.P = alu.flags]))

\* the flags a loaded value inserts: Z on zero, N on bit 7
load_flags(p, value) ==
    BitOr(BitOr(p, IF value = 0 THEN Flag_Z ELSE 0),
          IF BitAnd(value, 128) = 128 THEN Flag_N ELSE 0)

\* CPU::load
load(m0, address_mode) ==
    Then(operand(m0, address_mode), LAMBDA m1 :
      IF m1.fault THEN m1 ELSE [m1 EXCEPT !.cpu.P = load_flags(m1.cpu.P, m1.ret)])

\* CPU::store
store(m0, address_mode, value) ==
    Then(m0, LAMBDA m :
      IF m.fault THEN m
      ELSE CASE address_mode = "Accumulator" -> [m EXCEPT !.cpu.A = value]
        [] address_mode = "Immediate" -> [m EXCEPT !.fault = TRUE]
        [] OTHER -> Then(calculate_address(m, address_mode), LAMBDA m1 :
                      mem_write(m1, m1.cpu.address_line, value)))

\* the stack pointer goes through the ALU: S = do_arithmetic(op) of S
move_stack(m0, op) ==
    Then(m0, LAMBDA m :
    Then(alu_do(IF m.fault THEN m ELSE [m EXCEPT !.cpu.alu.input_a = m.cpu.S], op),
         LAMBDA m1 :
      IF m1.fault THEN m1 ELSE [m1 EXCEPT !.cpu.S = m1.cpu.alu.output]))

\* CPU::push: write at S, then S = do_arithmetic(Dec) of S
push(m0, value) ==
    Then(m0, LAMBDA m : move_stack(mem_write(m, m.cpu.S, value), "Dec"))

\* CPU::push16: the high byte, then the low byte
push16(m0, value) == push(push(m0, value \div 256), value % 256)

\* CPU::pull: S = do_arithmetic(Inc) of S, then read at S
pull(m0) ==
    Then(move_stack(m0, "Inc"), LAMBDA m1 : mem_read(m1, m1.cpu.S))

\* CPU::pull16: the low byte, then the high byte; the word is in ret
pull16(m0) ==
    Then(pull(m0), LAMBDA m1 :
    Then(pull(m1), LAMBDA m2 :
      IF m2.fault THEN m2 ELSE [m2 EXCEPT !.ret = Word(m2.ret, m1.ret)]))

\* self.PC = self.address_line
jump_to_address_line(m0) ==
    Then(m0, LAMBDA m : IF m.fault THEN m ELSE [m EXCEPT !.cpu.PC = m.cpu.address_line])

\* self.P = self.alu.flags
flags_from_alu(m0) ==
    Then(m0, LAMBDA m : IF m.fault THEN m ELSE [m EXCEPT !.cpu.P = m.cpu.alu.flags])

\* the operand is added to PC as an unsigned byte
branch_unsigned(m0) ==
    jump_to_address_line(
      set_address_line(m0, (m0.cpu.PC + m0.cpu.next_opcode) % 65536))

\* CPU::branch
branch(m0) == jump_to_address_line(calculate_address(m0, "Relative"))

\* a jump in any mode is carried out
jmp_any_mode(m0, address_mode) ==
    jump_to_address_line(IF address_mode \in {"Accumulator", "Immediate"} THEN m0
                         ELSE calculate_address(m0, address_mode))

\* CPU::jmp
jmp(m0, address_mode) ==
    IF address_mode \in {"Absolute", "Indirect"}
    THEN jump_to_address_line(calculate_address(m0, address_mode))
    ELSE [m0 EXCEPT !.fault = TRUE]

\* the arms ADC, AND, EOR, ORA, SBC of CPU::execute
exec_accumulator(m0, address_mode, op) ==
    do_accumulator_arithmetic(load_alu_input_b(m0, address_mode), op)

\* the arms ASL, ROL, ROR: the result goes to A or back to memory, then P = flags
exec_shift(m0, address_mode, op) ==
    Then(alu_do(load_alu_input_a(m0, address_mode), op), LAMBDA m1 :
      flags_from_alu(IF address_mode = "Accumulator"
                     THEN [m1 EXCEPT !.cpu.A = m1.cpu.alu.output]
                     ELSE mem_write(m1, m1.cpu.address_line, m1.cpu.alu.output)))

\* alu.input_a = r
set_input_a(m0, r) == [m0 EXCEPT !.cpu.alu.input_a = r]

\* the arms CMP, CPX, CPY: r is the register compared
exec_compare(m0, r, address_mode) ==
    flags_from_alu(alu_do(load_alu_input_b(set_input_a(m0, r), address_mode), "Cmp"))

\* the arms DEC, INC: memory operand, P = flags, written back, then prev()
exec_incdec_memory(m0, address_mode, op) ==
    Then(flags_from_alu(alu_do(load_alu_input_a(m0, address_mode), op)), LAMBDA m2 :
      prev(mem_write(m2, m2.cpu.address_line, m2.cpu.alu.output)))

\* one register of the bank
register(c, r) ==
    CASE r = "A" -> c.A [] r = "X" -> c.X [] r = "Y" -> c.Y [] r = "S" -> c.S

\* one register of the bank is set to a value
set_register(m, r, value) ==
    CASE r = "A" -> [m EXCEPT !.cpu.A = value]
      [] r = "X" -> [m EXCEPT !.cpu.X = value]
      [] r = "Y" -> [m EXCEPT !.cpu.Y = value]
      [] r = "S" -> [m EXCEPT !.cpu.S = value]

\* the arms DEX, DEY, INX, INY: alu of the register; P = flags; the register
\* takes the output; prev()
exec_incdec_register(m0, r, op) ==
    Then(m0, LAMBDA m :
    Then(flags_from_alu(alu_do(set_input_a(m, register(m.cpu, r)), op)),
         LAMBDA m1 :
      prev(IF m1.fault THEN m1 ELSE set_register(m1, r, m1.cpu.alu.output))))

\* the arm BIT
exec_bit(m0, address_mode) ==
    Then(m0, LAMBDA m :
    Then(alu_do(load_alu_input_b(set_input_a(m, m.cpu.A), address_mode), "And"),
         LAMBDA m1 :
      IF m1.fault THEN m1
      ELSE [m1 EXCEPT !.cpu.P =
              Flags_insert(m1.cpu.P, BitAnd(Flags_from(m1.cpu.alu.input_b),
                                            Flag_V + Flag_C))]))

\* the arm BRK
exec_brk(m0) ==
    Then(m0, LAMBDA m :
    Then(mem_read(push16(push(m, u8_from(m.cpu.P)), m.cpu.PC), 65534), LAMBDA m2 :
    Then(mem_read(m2, 65535), LAMBDA m3 :
      IF m3.fault THEN m3
      ELSE [m3 EXCEPT !.cpu.PC = BitAnd16(m3.ret * 256, m2.ret),
                      !.cpu.P = Flags_insert(m3.cpu.P, Flag_B)])))

\* the arm JSR
exec_jsr(m0) ==
    Then(calculate_address(m0, "Absolute"), LAMBDA m1 :
      jump_to_address_line(push16(m1, m1.cpu.PC)))

\* P takes the byte pulled as it is
pull_flags_unchecked(m0) ==
    Then(pull(m0), LAMBDA m1 :
      IF m1.fault THEN m1 ELSE [m1 EXCEPT !.cpu.P = m1.ret])

\* self.P = Flags::from(the byte pulled)
pull_flags(m0) ==
    Then(pull(m0), LAMBDA m1 :
      IF m1.fault THEN m1 ELSE [m1 EXCEPT !.cpu.P = Flags_from(m1.ret)])

\* self.PC = the word pulled
pull_pc(m0) ==
    Then(pull16(m0), LAMBDA m1 : IF m1.fault THEN m1 ELSE [m1 EXCEPT !.cpu.PC = m1.ret])

\* the arms LDA, LDX, LDY
exec_load(m0, r, address_mode) ==
    Then(load(m0, address_mode), LAMBDA m1 :
      IF m1.fault THEN m1 ELSE set_register(m1, r, m1.ret))

\* the arms TAX, TAY, TSX, TXA, TXS, TYA: to = from; prev()
exec_transfer(m0, to, from) ==
    Then(m0, LAMBDA m : prev(set_register(m, to, register(m.cpu, from))))

\* CPU::execute.  An instruction is [op, mode, flag]: the mnemonic, the
\* addressing mode (or "") and the flag of SET / CLR (or 0).  The arm LSR
\* names alu::Op::Lsr, which the ALU does not define: no build runs it, and
\* it has no arm here.
execute(m0, i) ==
    Then(m0, LAMBDA m :
      IF m.fault THEN m
      ELSE CASE i.op = "ADC" -> exec_accumulator(m, i.mode, "Adc")
        [] i.op = "AND" -> exec_accumulator(m, i.mode, "And")
        [] i.op = "ASL" -> exec_shift(m, i.mode, "Asl")
        [] i.op = "BCC" -> IF ~Flags_contains(m.cpu.P, Flag_C) THEN branch(m) ELSE m
        [] i.op = "BCS" -> IF Flags_contains(m.cpu.P, Flag_C) THEN branch(m) ELSE m
        [] i.op = "BEQ" -> IF Flags_contains(m.cpu.P, Flag_Z) THEN branch(m) ELSE m
        [] i.op = "BIT" -> exec_bit(m, i.mode)
        [] i.op = "BMI" -> IF Flags_contains(m.cpu.P, Flag_N) THEN branch(m) ELSE m
        [] i.op = "BNE" -> IF ~Flags_contains(m.cpu.P, Flag_Z) THEN branch(m) ELSE m
        [] i.op = "BPL" -> IF ~Flags_contains(m.cpu.P, Flag_N) THEN branch(m) ELSE m
        [] i.op = "BRK" -> exec_brk(m)
        [] i.op = "BVC" -> IF ~Flags_contains(m.cpu.P, Flag_V) THEN branch(m) ELSE m
        [] i.op = "BVS" -> IF Flags_contains(m.cpu.P, Flag_V) THEN branch(m) ELSE m
        [] i.op = "CLR" -> prev([m EXCEPT !.cpu.P = Flags_remove(m.cpu.P, i.flag)])
        [] i.op = "CMP" -> exec_compare(m, m.cpu.A, i.mode)
        [] i.op = "CPX" -> exec_compare(m, m.cpu.X, i.mode)
        [] i.op = "CPY" -> exec_compare(m, m.cpu.Y, i.mode)
        [] i.op = "DEC" -> exec_incdec_memory(m, i.mode, "Dec")
        [] i.op = "DEX" -> exec_incdec_register(m, "X", "Dec")
        [] i.op = "DEY" -> exec_incdec_register(m, "Y", "Dec")
        [] i.op = "EOR" -> exec_accumulator(m, i.mode, "Eor")
        [] i.op = "INC" -> exec_incdec_memory(m, i.mode, "Inc")
        [] i.op = "INX" -> exec_incdec_register(m, "X", "Inc")
        [] i.op = "INY" -> exec_incdec_register(m, "Y", "Inc")
        [] i.op = "JMP" -> jmp(m, i.mode)
        [] i.op = "JSR" -> exec_jsr(m)
        [] i.op = "LDA" -> exec_load(m, "A", i.mode)
        [] i.op = "LDX" -> exec_load(m, "X", i.mode)
        [] i.op = "LDY" -> exec_load(m, "Y", i.mode)
        [] i.op = "ORA" -> exec_accumulator(m, i.mode, "Or")
        [] i.op = "NOP" -> m
        [] i.op = "PHA" -> push(m, m.cpu.A)
        [] i.op = "PHP" -> push(m, u8_from(m.cpu.P))
        [] i.op = "PLA" ->
             Then(pull(m), LAMBDA m1 :
               IF m1.fault THEN m1 ELSE set_register(m1, "A", m1.ret))
        [] i.op = "PLP" -> pull_flags(m)
        [] i.op = "ROL" -> exec_shift(m, i.mode, "Rol")
        [] i.op = "ROR" -> exec_shift(m, i.mode, "Ror")
        [] i.op = "RTI" -> pull_pc(pull_flags(m))
        [] i.op = "RTS" -> pull_pc(m)
        [] i.op = "SBC" -> exec_accumulator(m, i.mode, "Sbc")
        [] i.op = "SET" -> prev([m EXCEPT !.cpu.P = Flags_insert(m.cpu.P, i.flag)])
        [] i.op = "STA" -> store(m, i.mode, m.cpu.A)
        [] i.op = "STX" -> store(m, i.mode, m.cpu.X)
        [] i.op = "STY" -> store(m, i.mode, m.cpu.Y)
        [] i.op = "TAX" -> exec_transfer(m, "X", "A")
        [] i.op = "TAY" -> exec_transfer(m, "Y", "A")
        [] i.op = "TSX" -> exec_transfer(m, "X", "S")
        [] i.op = "TXA" -> exec_transfer(m, "A", "X")
        [] i.op = "TXS" -> exec_transfer(m, "S", "X")
        [] i.op = "TYA" -> exec_transfer(m, "A", "Y"))

\* CPU::step: two fetches, decode, execute.  decode (cpu/instructions.rs)
\* has no table, only the catch-all arm: the instruction it stands for is
\* the input i.
CPU_step(m0, i) ==
    Then(next(m0), LAMBDA m1 :
    Then(next(IF m1.fault THEN m1 ELSE [m1 EXCEPT !.cpu.opcode = m1.ret]), LAMBDA m2 :
      execute(IF m2.fault THEN m2 ELSE [m2 EXCEPT !.cpu.next_opcode = m2.ret], i)))

----------------------------------------------------------------------------
(* The state at power-on *)

RESET_VECTOR == 65532

\* MemoryBus::load_cartridge: the ROM window holds the cartridge's bytes.  The
\* bytes of the cartridge are inputs: rom_data holds those the run has
\* determined so far (cart is the set of their offsets), the others read 0.
load_cartridge(b, low, high) ==
    [b EXCEPT !.rom_data =
        Array_put(Array_put(b.rom_data, RESET_VECTOR - ROM_BASE, low),
                  RESET_VECTOR + 1 - ROM_BASE, high)]

\* the byte at 0xfffc taken as the high byte of PC, that at 0xfffd as the low
CPU_init_swapped(b) ==
    [A |-> 0, X |-> 0, Y |-> 0, S |-> 0, P |-> Flags_from(0),
     PC |-> Word(read_byte(b, RESET_VECTOR).ret, read_byte(b, RESET_VECTOR + 1).ret),
     alu |-> ALU_new, address_line |-> 0, opcode |-> 0, next_opcode |-> 0]

\* CPU::init: registers (Registers::init), PC from the reset vector
CPU_init(b) ==
    [A |-> 0, X |-> 0, Y |-> 0, S |-> 0, P |-> Flags_from(0),
     PC |-> Word(read_byte(b, RESET_VECTOR + 1).ret, read_byte(b, RESET_VECTOR).ret),
     alu |-> ALU_new, address_line |-> 0, opcode |-> 0, next_opcode |-> 0]

NoInstr == [op |-> "", mode |-> "", flag |-> 0]

\* history of the last operation: its name, its inputs a and b, the byte it
\* returned, an operation-specific log, and the instruction of a CPU step
Hist(op, a, b, ret, acc) ==
    [op |-> op, a |-> a, b |-> b, ret |-> ret, acc |-> acc, i |-> NoInstr]

NoHist == Hist("none", 0, 0, 0, <<>>)

NoRes == [done |-> FALSE, value |-> 0, carry |-> FALSE, overflow |-> FALSE]

NoArg == [a |-> 0, b |-> 0, carry_in |-> FALSE]

\* power-on with a cartridge whose reset vector is `entry`
PowerOn(entry) ==
    /\ bus = load_cartridge(MemoryBus_init, entry % 256, entry \div 256)
    /\ cpu = CPU_init(bus)
    /\ cart = {RESET_VECTOR - ROM_BASE, RESET_VECTOR + 1 - ROM_BASE}
    /\ fault = FALSE
    /\ hist = NoHist
    /\ nops = 0

----------------------------------------------------------------------------
(* Spec: the CPU stepped from power-on.  Each step fetches the opcode and  *)
(* the byte after it, and executes one instruction.  The bytes of the      *)
(* cartridge that a step reads as operands are chosen when they are first  *)
(* fetched.                                                                *)

MaxSteps == 3

\* the cartridge's reset vector: the start of ROM, and the last word of ROM
ResetVectors == {ROM_BASE, 65534}

OperandBytes == {0, 16, 80, 255}

Instr(op, mode) == [op |-> op, mode |-> mode, flag |-> 0]

Instructions ==
    {Instr(op, "Immediate") : op \in {"LDA", "LDX", "LDY", "CMP", "CPX", "CPY", "ADC"}}
    \cup {Instr("CMP", "ZeroPage"), Instr("STA", "ZeroPage"), Instr("LDA", "Absolute"),
          Instr("PHA", ""), Instr("PLA", "")}
    \cup {[op |-> "SET", mode |-> "", flag |-> Flag_C]}

\* the modes whose operand has a second byte, fetched by calculate_address
TwoByteModes == {"Absolute", "AbsoluteX", "AbsoluteY", "Indirect"}

InRom(address) == address >= ROM_BASE /\ address <= 65535

\* the cartridge byte at `address` is `value`, unless it is determined already
Reveal(b, known, address, value) ==
    IF InRom(address) /\ (address - ROM_BASE) \notin known
    THEN [b EXCEPT !.rom_data = Array_put(b.rom_data, address - ROM_BASE, value)]
    ELSE b

\* the ROM offsets among the addresses of an access log
RomTouched(acc) ==
    {acc[k][2] - ROM_BASE : k \in {j \in DOMAIN acc : InRom(acc[j][2])}}

Machine(c, b) ==
    [cpu |-> c, bus |-> b, fault |-> FALSE, ret |-> 0, acc |-> <<>>,
     checked |-> checked]

\* the writes to the DMA trigger in an access log
DmaWrites(acc) == Cardinality({k \in DOMAIN acc : acc[k][1] = "w" /\ acc[k][2] = OAMDMA})

Init ==
    /\ \E entry \in ResetVectors : PowerOn(entry)
    /\ checked \in BOOLEAN
    /\ arg = NoArg
    /\ res = NoRes

\* CPU::step of instruction i, with b1 and b2 the cartridge's bytes after
\* the opcode where the run has not fixed them.  hist.a counts the memory
\* accesses the CPU has made since power-on, hist.b the DMA transfers it
\* has started, hist.acc logs the accesses of this step.
StepOn(i, b1, b2) ==
    LET operands == {cpu.PC + 1} \cup
                    (IF i.mode \in TwoByteModes THEN {cpu.PC + 2} ELSE {})
        b0 == Reveal(bus, cart, cpu.PC + 1, b1)
        b == IF i.mode \in TwoByteModes
             THEN Reveal(b0, cart, cpu.PC + 2, b2) ELSE b0
    IN  \E m \in {CPU_step(Machine(cpu, b), i)} :
          /\ cpu' = m.cpu
          /\ bus' = m.bus
          /\ fault' = m.fault
          /\ cart' = cart \cup {a - ROM_BASE : a \in {x \in operands : InRom(x)}}
                          \cup RomTouched(m.acc)
          /\ hist' = [Hist("step", hist.a + Len(m.acc),
                           hist.b + DmaWrites(m.acc), m.ret, m.acc)
                      EXCEPT !.i = i]

Step ==
    /\ ~fault
    /\ nops < MaxSteps
    /\ \E i \in Instructions, b1 \in OperandBytes :
       \E b2 \in (IF i.mode \in TwoByteModes THEN OperandBytes ELSE {0}) :
         StepOn(i, b1, b2)
    /\ nops' = nops + 1
    /\ UNCHANGED <<checked, arg, res>>

Next == Step

Spec == Init /\ [][Next]_vars

\* the register a compare instruction compares
Compared(c, op) ==
    CASE op = "CMP" -> c.A [] op = "CPX" -> c.X [] op = "CPY" -> c.Y

\* C3: whatever the flags before it, a compare of register value r with
\* operand m leaves Carry = 1 exactly when r >= m and Zero = 1 exactly when
\* r = m.
C3_CompareCarryAndZero ==
    [][(hist'.op = "step" /\ hist'.i.op \in {"CMP", "CPX", "CPY"} /\ ~fault') =>
         LET r == Compared(cpu, hist'.i.op)
             m == cpu'.alu.input_b
         IN  /\ Flags_contains(cpu'.P, Flag_C) <=> (r >= m)
             /\ Flags_contains(cpu'.P, Flag_Z) <=> (r = m)]_vars

\* C4: every memory access of the CPU ticks the PPU: after any sequence of
\* instructions that started no DMA, the PPU has been stepped once per
\* memory access the CPU has made.
C4_EveryCpuAccessTicksThePpu ==
    (hist.op = "step" /\ hist.b = 0 /\ ~fault) =>
        bus.ppu.cpu_cycles = hist.a % 65536

----------------------------------------------------------------------------
(* SpecALU: the adder of cpu/alu.rs applied to every pair of bytes and     *)
(* either carry.                                                           *)

InitALU ==
    /\ PowerOn(ROM_BASE)
    /\ checked = TRUE
    /\ arg \in [a : Byte, b : Byte, carry_in : BOOLEAN]
    /\ res = NoRes

ApplyAdc ==
    /\ ~res.done
    /\ res' = [done |-> TRUE] @@ adc(arg.a, arg.b, arg.carry_in)
    /\ UNCHANGED <<cpu, bus, cart, fault, checked, hist, nops, arg>>

NextALU == ApplyAdc

SpecALU == InitALU /\ [][NextALU]_vars

\* C1: for every a, b and carry_in, add-with-carry returns
\* (a + b + carry_in) mod 256 and carries out exactly when the sum is >= 256.
C1_AdcSumAndCarry ==
    res.done =>
        LET sum == arg.a + arg.b + (IF arg.carry_in THEN 1 ELSE 0)
        IN  res.value = sum % 256 /\ res.carry = (sum >= 256)

\* the carry comes from the increment alone: a + b = 255 with carry_in
C1_Witness ==
    res.done /\ arg.carry_in /\ arg.a + arg.b = 255 /\ res.carry /\ res.value = 0

\* C2: overflow_out is true exactly when a and b have the same sign bit and
\* the sign bit of the result differs from it.
C2_OverflowIsSignedOverflow ==
    res.done =>
        (res.overflow <=> (Bit(arg.a, 7) = Bit(arg.b, 7)
                           /\ Bit(res.value, 7) # Bit(arg.a, 7)))

----------------------------------------------------------------------------
(* SpecClock: a long run of bus accesses from power-on, each of which      *)
(* ticks the bus once; the PPU's position in the frame is observed.        *)

\* the run is long enough for the u16 cpu_cycles of the PPU to wrap
MaxTicks == 65545

WINDOW == 5

\* internal ticks since the start of the frame
FramePosition(ppu) == ppu.scanline * (LAST_CYCLE + 1) + ppu.cycles

FrameLength == (LAST_SCANLINE + 1) * (LAST_CYCLE + 1)

\* internal ticks the PPU advanced between two positions less than a frame apart
Advance(before, after) ==
    (FramePosition(after) - FramePosition(before) + FrameLength) % FrameLength

LastN(seq, n) == IF Len(seq) <= n THEN seq ELSE SubSeq(seq, Len(seq) - n + 1, Len(seq))

RECURSIVE SeqSum(_)
SeqSum(seq) == IF seq = <<>> THEN 0 ELSE Head(seq) + SeqSum(Tail(seq))

InitClock ==
    /\ PowerOn(ROM_BASE)
    /\ checked = TRUE
    /\ arg = NoArg
    /\ res = NoRes

\* one CPU tick: a bus read of RAM; hist.acc holds the internal ticks of the
\* last WINDOW CPU ticks
ClockRead ==
    /\ ~fault
    /\ nops < MaxTicks
    /\ LET r == read(bus, 0)
           d == Advance(bus.ppu, r.bus.ppu)
       IN  /\ bus' = r.bus
           /\ fault' = r.fault
           /\ hist' = Hist("read", 0, 0, r.ret, LastN(Append(hist.acc, d), WINDOW))
    /\ nops' = nops + 1
    /\ UNCHANGED <<cpu, cart, checked, arg, res>>

NextClock == ClockRead

SpecClock == InitClock /\ [][NextClock]_vars

\* C6: over every window of 5 consecutive CPU ticks, also after the
\* CPU-cycle counter has wrapped, the PPU advances 15 or 16 internal ticks.
C6_FiveTicksAdvance15Or16 ==
    Len(hist.acc) = WINDOW => SeqSum(hist.acc) \in {15, 16}

----------------------------------------------------------------------------
(* SpecBus: the bus contract operations read(address) and                  *)
(* write(address, value) applied from power-on, over addresses of every    *)
(* range of the dispatch table.                                            *)

MaxBusOps == 3

\* RAM, a RAM mirror, PPU status and OAM data, an unmapped address, ROM
ReadAddresses == {0, 2049, 8194, 8196, 16384, 32768}

\* RAM, OAM address, OAM data, scroll, address, a mirror of the PPU registers
\* above 0x2007, the DMA trigger, an unmapped address, ROM
WriteAddresses == {0, 8195, 8196, 8197, 8198, 8200, OAMDMA, 16384, 32768}

\* as data; as DMA pages: RAM page 2 and the unmapped page 0x40
WriteValues == {2, 64}

InitBus ==
    /\ PowerOn(ROM_BASE)
    /\ checked = TRUE
    /\ arg = NoArg
    /\ res = NoRes

BusRead ==
    /\ ~fault
    /\ nops < MaxBusOps
    /\ \E address \in ReadAddresses :
         \E r \in {read(bus, address)} :
             /\ bus' = r.bus
             /\ fault' = r.fault
             /\ hist' = Hist("read", address, 0, r.ret, <<>>)
    /\ nops' = nops + 1
    /\ UNCHANGED <<cpu, cart, checked, arg, res>>

BusWrite ==
    /\ ~fault
    /\ nops < MaxBusOps
    /\ \E address \in WriteAddresses, value \in WriteValues :
         \E r \in {write(bus, address, value)} :
             /\ bus' = r.bus
             /\ fault' = r.fault
             /\ hist' = Hist("write", address, value, 0, <<>>)
    /\ nops' = nops + 1
    /\ UNCHANGED <<cpu, cart, checked, arg, res>>

NextBus == BusRead \/ BusWrite

SpecBus == InitBus /\ [][NextBus]_vars

\* steps of the PPU between two values of its u16 cpu_cycles
StepsBetween(before, after) == (after - before + 65536) % 65536

\* C5: each read and each write that returns advances the PPU by exactly one
\* step(), a write to 0x4014 by that one and the ticks of its DMA; and the
\* PPU is stepped by nothing but bus ticks (the two counters agree).
C5_OneStepPerAccess ==
    [][(hist'.op \in {"read", "write"} /\ ~fault') =>
         /\ bus'.cycles = bus'.ppu.cpu_cycles % 256
         /\ IF hist'.op = "write" /\ hist'.a = OAMDMA
            THEN StepsBetween(bus.ppu.cpu_cycles, bus'.ppu.cpu_cycles) > 1
            ELSE StepsBetween(bus.ppu.cpu_cycles, bus'.ppu.cpu_cycles) = 1]_vars

\* a read that returned after an earlier DMA and one other access
C5_Witness ==
    /\ hist.op = "read" /\ hist.a = 8194 /\ ~fault
    /\ bus.ppu.cpu_cycles > 512

PPUSCROLL == 8197
PPUADDR == 8198
OAMDATA == 8196

\* C9: every write to the scroll port or to the address port flips the
\* shared write-toggle latch.
C9_EveryWriteFlipsLatch ==
    [][(hist'.op = "write" /\ hist'.a \in {PPUSCROLL, PPUADDR} /\ ~fault') =>
         bus'.ppu.registers.first_write = ~bus.ppu.registers.first_write]_vars

\* C10: a write to the OAM-data register stores the byte at the current OAM
\* address and then increments the OAM address by one, wrapping at 256.
C10_OamDataWriteStoresAndIncrements ==
    [][(hist'.op = "write" /\ hist'.a = OAMDATA /\ ~fault') =>
         /\ bus'.ppu.oam_data[bus.ppu.oam_address] = hist'.b
         /\ bus'.ppu.oam_address = (bus.ppu.oam_address + 1) % OAM_SIZE]_vars

\* the bytes of page p, which a transfer is to copy: p*0x100 .. p*0x100+255
PAGE_SIZE == 256

\* C11: a write of page p to 0x4014 that returns has copied the 256 bytes
\* at p*0x100 .. p*0x100+255 into OAM in ascending order from the OAM
\* address, which ends where it started (advanced by exactly 256).
C11_DmaCopiesWholePage ==
    [][(hist'.op = "write" /\ hist'.a = OAMDMA /\ ~fault') =>
         /\ bus'.ppu.oam_address = bus.ppu.oam_address
         /\ \A k \in 0..(PAGE_SIZE - 1) :
              bus'.ppu.oam_data[(bus.ppu.oam_address + k) % OAM_SIZE]
                = read_byte(bus, PAGE_SIZE * hist'.b + k).ret]_vars

\* the ticks the transfer is to take with the cycle count even at its start
DMA_TICKS == 513

\* C12: a write to 0x4014 always returns, and its transfer has taken 513
\* ticks when the cycle count was even at its start and 514 when it was
\* odd, the tick of the triggering write counted or not.
C12_DmaTakes513Or514Ticks ==
    [][(hist'.op = "write" /\ hist'.a = OAMDMA) =>
         /\ ~fault'
         /\ LET n == StepsBetween(bus.ppu.cpu_cycles, bus'.ppu.cpu_cycles)
                expected == DMA_TICKS + (bus.cycles % 2)
            IN  n = expected \/ n - 1 = expected]_vars

PPU_FIRST == 8192
PPU_LAST == 16383

\* C16: no read and no write at an address in 0x2000-0x3FFF faults, and
\* each has the effect of the same access to PPU register (a mod 8).
C16_PpuMirrorsPeriod8 ==
    [][(hist'.op \in {"read", "write"} /\ hist'.a \in PPU_FIRST..PPU_LAST) =>
         /\ ~fault'
         /\ IF hist'.op = "read"
            THEN bus' = read(bus, PPU_FIRST + (hist'.a % 8)).bus
            ELSE bus' = write(bus, PPU_FIRST + (hist'.a % 8), hist'.b).bus]_vars

\* C17: a write to an address in 0x8000-0xFFFF leaves the program ROM as
\* the cartridge load made it.
C17_RomIsReadOnly ==
    [][(hist'.op = "write" /\ hist'.a >= ROM_BASE) =>
         bus'.rom_data = bus.rom_data]_vars

----------------------------------------------------------------------------
(* SpecRam: reads and writes of the bus in 0x0000-0x1FFF from power-on.    *)
(* res is what the work RAM is expected to hold: cell -> last byte written *)
(* to the cell or to one of its mirrors, 0 from power-on.                  *)

MaxRamOps == 3

\* cells 0, 1 and 0x7ff and their mirrors at 0x800, 0x1000 and 0x1800
RamAddresses == {0, 2047, 2048, 2049, 4095, 4096, 6144, 8191}

RamValues == {1, 2}

RamCells == {a % RAM_SIZE : a \in RamAddresses}

InitRam ==
    /\ PowerOn(ROM_BASE)
    /\ checked = TRUE
    /\ arg = NoArg
    /\ res = [c \in RamCells |-> 0]

RamRead ==
    /\ ~fault
    /\ nops < MaxRamOps
    /\ \E address \in RamAddresses :
         \E r \in {read(bus, address)} :
             /\ bus' = r.bus
             /\ fault' = r.fault
             /\ hist' = Hist("read", address, 0, r.ret, <<>>)
    /\ nops' = nops + 1
    /\ UNCHANGED <<cpu, cart, checked, arg, res>>

RamWrite ==
    /\ ~fault
    /\ nops < MaxRamOps
    /\ \E address \in RamAddresses, value \in RamValues :
         \E r \in {write(bus, address, value)} :
             /\ bus' = r.bus
             /\ fault' = r.fault
             /\ hist' = Hist("write", address, value, 0, <<>>)
             /\ res' = [res EXCEPT ![address % RAM_SIZE] = value]
    /\ nops' = nops + 1
    /\ UNCHANGED <<cpu, cart, checked, arg>>

NextRam == RamRead \/ RamWrite

SpecRam == InitRam /\ [][NextRam]_vars

\* C15: an access at a in 0x0000-0x1FFF is an access of work-RAM cell
\* a mod 0x800: every read returns the byte last written to that cell
\* through any of its four addresses, the byte is read back at each of
\* them, and a write changes no other cell.
C15_RamMirroredEvery0x800 ==
    /\ ~fault
    /\ hist.op = "read" => hist.ret = res[hist.a % RAM_SIZE]
    /\ \A a \in RamAddresses : read(bus, a).ret = res[a % RAM_SIZE]
    /\ \A c \in 0..(RAM_SIZE - 1) :
         Array_get(bus.memory, c) = IF c \in RamCells THEN res[c] ELSE 0

\* cell 0x7ff was written 2 and cell 0 was written 1, each through one of
\* its addresses, and the last read, at the mirror 0x1fff, returned the 2
C15_Witness ==
    /\ hist.op = "read" /\ hist.a = 8191 /\ hist.ret = 2
    /\ res[2047] = 2 /\ res[0] = 1

----------------------------------------------------------------------------
(* SpecPPU: the PPU stepped from power-on into the vertical blank, with    *)
(* reads of the status register and writes to the scroll and address       *)
(* ports at any point of the run.                                          *)

\* steps from power-on: scanline 241 starts at internal tick 241 * 341,
\* which step 25682 reaches
MaxPpuSteps == 25700

MaxRegOps == 2

STATUS == 2

PortValues == {255}

InitPPU ==
    /\ PowerOn(ROM_BASE)
    /\ checked = TRUE
    /\ arg = NoArg
    /\ res = NoRes

\* PPU::step
PpuStep ==
    /\ bus.ppu.cpu_cycles < MaxPpuSteps
    /\ bus' = [bus EXCEPT !.ppu = PPU_step(bus.ppu)]
    /\ hist' = Hist("step", 0, 0, 0, <<>>)
    /\ UNCHANGED <<cpu, cart, fault, checked, nops, arg, res>>

\* PPU::read_register(2); hist.acc is the latch as it was before the read
PpuReadStatus ==
    /\ nops < MaxRegOps
    /\ \E r \in {read_register(bus.ppu, STATUS)} :
         /\ bus' = [bus EXCEPT !.ppu = r.ppu]
         /\ hist' = Hist("read_register", STATUS, 0, r.ret, <<bus.ppu.registers.first_write>>)
    /\ nops' = nops + 1
    /\ UNCHANGED <<cpu, cart, fault, checked, arg, res>>

\* PPU::write_register(5, value) and PPU::write_register(6, value)
PpuWritePort ==
    /\ nops < MaxRegOps
    /\ \E address \in {5, 6}, value \in PortValues :
         \E r \in {write_register(bus.ppu, address, value)} :
             /\ bus' = [bus EXCEPT !.ppu = r.ppu]
             /\ fault' = r.fault
             /\ hist' = Hist("write_register", address, value, 0, <<>>)
    /\ nops' = nops + 1
    /\ UNCHANGED <<cpu, cart, checked, arg, res>>

NextPPU == PpuStep \/ PpuReadStatus \/ PpuWritePort

SpecPPU == InitPPU /\ [][NextPPU]_vars

VblankSet(ppu) == Bit(ppu.registers.status, 7) = 1

\* C7: a read of the status register returns the bits as they were before
\* it, then clears the vertical-blank bit and sets the latch to 'first
\* write'; a second read right after it returns vblank = 0 and leaves the
\* latch at 'first write'.
C7_StatusRead ==
    [][(hist'.op = "read_register" /\ hist'.a = STATUS) =>
         /\ hist'.ret = bus.ppu.registers.status
         /\ bus'.ppu.registers.status =
                BitAnd(bus.ppu.registers.status, BitNot(StatusRegister_VBLANK))
         /\ bus'.ppu.registers.first_write
         /\ (hist.op = "read_register" /\ hist.a = STATUS) =>
                Bit(hist'.ret, 7) = 0]_vars

\* a read in the vertical blank, with the latch at 'second write' before it
C7_Witness ==
    /\ hist.op = "read_register" /\ hist.a = STATUS
    /\ Bit(hist.ret, 7) = 1 /\ hist.acc = <<FALSE>>
    /\ ~VblankSet(bus.ppu) /\ bus.ppu.registers.first_write

VBLANK_START == VBLANK_SCANLINE * (LAST_CYCLE + 1)

\* C8: the vertical-blank bit is set once per frame, by the step in which the
\* scanline counter reaches the vblank-start line (the tick that follows
\* the arrival sets it); once a status read has cleared it, no later step
\* of the frame sets it again.
C8_VblankSetOncePerFrame ==
    [][(~VblankSet(bus.ppu) /\ VblankSet(bus'.ppu)) =>
         FramePosition(bus.ppu) \in (VBLANK_START - 4)..VBLANK_START]_vars

----------------------------------------------------------------------------
(* SpecRoundTrip: from power-on the CPU runs LDA #b, PHA, PLP, PHP for a   *)
(* byte b of the cartridge (arg.a): b goes through the stack into P and P  *)
(* goes back to the stack.                                                 *)

RoundTripProgram ==
    <<Instr("LDA", "Immediate"), Instr("PHA", ""), Instr("PLP", ""), Instr("PHP", "")>>

InitRoundTrip ==
    /\ PowerOn(ROM_BASE)
    /\ checked = TRUE
    /\ arg \in {[NoArg EXCEPT !.a = b] : b \in Byte}
    /\ res = NoRes

RoundTripStep ==
    /\ ~fault
    /\ nops < Len(RoundTripProgram)
    /\ StepOn(RoundTripProgram[nops + 1], arg.a, 0)
    /\ nops' = nops + 1
    /\ UNCHANGED <<checked, arg, res>>

NextRoundTrip == RoundTripStep

SpecRoundTrip == InitRoundTrip /\ [][NextRoundTrip]_vars

\* the bit positions that no flag of Flags occupies
UndefinedBits == {k \in 0..7 : Bit(Flags_all, k) = 0}

\* byte v is byte b with the undefined bit positions cleared
ClearedOf(v, b) ==
    \A k \in 0..7 : Bit(v, k) = IF k \in UndefinedBits THEN 0 ELSE Bit(b, k)

\* the bytes that the writes of an access log have left in memory
Written(acc) ==
    {read_byte(bus, acc[k][2]).ret : k \in {j \in DOMAIN acc : acc[j][1] = "w"}}

\* C13: for every byte b, after PLP has pulled b the status register P is b
\* with the undefined bit positions cleared and the defined ones as in b,
\* and the byte PHP then pushes is that same byte.
C13_PlpPhpRoundTrip ==
    /\ ~fault
    /\ (hist.i.op = "PLP") => (hist.ret = arg.a /\ ClearedOf(u8_from(cpu.P), arg.a))
    /\ (hist.i.op = "PHP") =>
          /\ Written(hist.acc) # {}
          /\ \A v \in Written(hist.acc) : ClearedOf(v, arg.a)

\* PHP has pushed 0xfb for the byte 0xff, whose undefined bit was set
C13_Witness ==
    /\ hist.i.op = "PHP" /\ arg.a = 255 /\ Written(hist.acc) = {251}
    /\ UndefinedBits # {}

----------------------------------------------------------------------------
(* SpecStatus: the CPU stepped from power-on through the instructions that *)
(* write the status register: pulls from the stack, BIT, flag set and      *)
(* clear, and instructions that take their flags from the ALU.             *)

MaxStatusSteps == 3

\* immediate operands: the undefined bit alone, and every bit
StatusBytes == {4, 255}

StatusInstructions ==
    {Instr(op, "Immediate") : op \in {"LDA", "BIT", "ADC", "SBC", "CMP"}}
    \cup {Instr(op, "") : op \in {"PHA", "PHP", "PLP", "RTI", "INX", "DEX"}}
    \cup {Instr(op, "Accumulator") : op \in {"ASL", "ROL", "ROR"}}
    \cup {Instr("BIT", "ZeroPage")}
    \cup {[op |-> op, mode |-> "", flag |-> f] :
            op \in {"SET", "CLR"}, f \in {Flag_C, Flag_I + Flag_D}}

InitStatus ==
    /\ PowerOn(ROM_BASE)
    /\ checked = TRUE
    /\ arg = NoArg
    /\ res = NoRes

StatusStep ==
    /\ ~fault
    /\ nops < MaxStatusSteps
    /\ \E i \in StatusInstructions :
       \E b1 \in (IF i.mode = "Immediate" THEN StatusBytes ELSE {0}) :
         StepOn(i, b1, 0)
    /\ nops' = nops + 1
    /\ UNCHANGED <<checked, arg, res>>

NextStatus == StatusStep

SpecStatus == InitStatus /\ [][NextStatus]_vars

\* C14: in every reachable state the undefined bit positions of the status
\* register P are zero.
C14_UndefinedBitsOfPAreZero ==
    \A k \in UndefinedBits : Bit(u8_from(cpu.P), k) = 0

\* PLP has pulled the byte 0xff, RTI a byte with the undefined bit set
C14_Witness ==
    /\ ~fault
    /\ \/ hist.i.op = "PLP" /\ hist.ret = 255
       \/ hist.i.op = "RTI" /\ Len(hist.acc) > 2 /\ hist.acc[3][1] = "r"
          /\ Bit(read_byte(bus, hist.acc[3][2]).ret, 2) = 1

----------------------------------------------------------------------------
(* SpecReset: power-on with cartridges of different reset vectors (arg.a   *)
(* is the vector the cartridge was built with), then the first steps.      *)

MaxResetSteps == 2

ResetBytes == {0, 1, 52, 128, 252, 255}

ResetEntries == {Word(high, low) : high \in ResetBytes, low \in ResetBytes}

ResetInstructions == {Instr("NOP", ""), Instr("LDA", "Immediate")}

InitReset ==
    /\ \E entry \in ResetEntries :
         /\ PowerOn(entry)
         /\ arg = [NoArg EXCEPT !.a = entry]
    /\ checked = TRUE
    /\ res = NoRes

ResetStep ==
    /\ ~fault
    /\ nops < MaxResetSteps
    /\ \E i \in ResetInstructions : StepOn(i, 0, 0)
    /\ nops' = nops + 1
    /\ UNCHANGED <<checked, arg, res>>

NextReset == ResetStep

SpecReset == InitReset /\ [][NextReset]_vars

\* C18: before any instruction has executed, PC is the word whose high
\* byte is the byte of the loaded ROM at 0xFFFD and whose low byte is the
\* byte at 0xFFFC, the reset vector of the cartridge.
C18_PcFromResetVector ==
    nops = 0 =>
      /\ ~fault
      /\ cpu.PC = read_byte(bus, 65533).ret * 256 + read_byte(bus, 65532).ret
      /\ cpu.PC = arg.a
      /\ read_byte(bus, 65533).ret = arg.a \div 256
      /\ read_byte(bus, 65532).ret = arg.a % 256

\* power-on with the vector 0x80fc: the two bytes differ
C18_Witness ==
    nops = 0 /\ arg.a = 33020 /\ cpu.PC = 33020

----------------------------------------------------------------------------
(* SpecIndexed: from power-on the CPU loads an index register with arg.b   *)
(* and then runs loads and stores in the indexed modes, each with the      *)
(* operand low byte arg.a.                                                 *)

MaxIndexedSteps == 2

IndexValues == {0, 1, 2, 128, 255}

\* the high byte of a two-byte operand: page 2 of the work RAM
OperandHighBytes == {2}

LoadIndexInstructions == {Instr("LDX", "Immediate"), Instr("LDY", "Immediate")}

IndexedInstructions ==
    {Instr(op, mode) : op \in {"LDA", "STA"},
                       mode \in {"ZeroPageX", "ZeroPageY", "AbsoluteX", "AbsoluteY"}}

InitIndexed ==
    /\ PowerOn(ROM_BASE)
    /\ checked = TRUE
    /\ arg \in {[NoArg EXCEPT !.a = a, !.b = b] : a \in Byte, b \in IndexValues}
    /\ res = NoRes

LoadIndex ==
    /\ ~fault
    /\ nops = 0
    /\ \E i \in LoadIndexInstructions : StepOn(i, arg.b, 0)
    /\ nops' = nops + 1
    /\ UNCHANGED <<checked, arg, res>>

IndexedAccess ==
    /\ ~fault
    /\ nops > 0
    /\ nops < MaxIndexedSteps
    /\ \E i \in IndexedInstructions, high \in OperandHighBytes : StepOn(i, arg.a, high)
    /\ nops' = nops + 1
    /\ UNCHANGED <<checked, arg, res>>

NextIndexed == LoadIndex \/ IndexedAccess

SpecIndexed == InitIndexed /\ [][NextIndexed]_vars

\* the index register of an indexed mode; loads and stores of A leave it
IndexOf(mode) == IF mode \in {"ZeroPageX", "AbsoluteX"} THEN cpu.X ELSE cpu.Y

\* the address of the last access of a step
LastAccess == hist.acc[Len(hist.acc)][2]

\* C19: with ZeroPageX and ZeroPageY the effective address is
\* (operand + index register) mod 256, within 0x0000-0x00FF, and it is the
\* address the instruction accesses.
C19_ZeroPageIndexedWraps ==
    (hist.i.mode \in {"ZeroPageX", "ZeroPageY"}) =>
       /\ ~fault
       /\ cpu.next_opcode = arg.a
       /\ cpu.address_line = (arg.a + IndexOf(hist.i.mode)) % 256
       /\ cpu.address_line \in 0..255
       /\ LastAccess = cpu.address_line

\* operand 0xff with X = 0x02: the access was made at 0x0001
C19_Witness ==
    /\ hist.i.mode = "ZeroPageX" /\ arg.a = 255 /\ cpu.X = 2
    /\ cpu.address_line = 1 /\ LastAccess = 1

\* C20: with AbsoluteX and AbsoluteY, when the operand's low byte plus the
\* index carries, the step reads the unfixed address (operand high byte,
\* wrapped low byte) before it makes its access at operand + index.
C20_DummyReadOnPageCross ==
    (hist.i.mode \in {"AbsoluteX", "AbsoluteY"} /\ ~fault
       /\ arg.a + IndexOf(hist.i.mode) > 255) =>
       LET high == (cpu.address_line - arg.a - IndexOf(hist.i.mode)) \div 256
           unfixed == Word(high, (arg.a + IndexOf(hist.i.mode)) % 256)
       IN  /\ LastAccess = Word(high, arg.a) + IndexOf(hist.i.mode)
           /\ \E k \in 1..(Len(hist.acc) - 1) : hist.acc[k] = <<"r", unfixed>>

----------------------------------------------------------------------------
(* Flags after the instructions of Spec *)

\* the byte an instruction of Spec produces: the register a load fills,
\* the accumulator after ADC
ResultOf(i) ==
    CASE i.op \in {"LDA", "ADC"} -> cpu.A
      [] i.op = "LDX" -> cpu.X
      [] i.op = "LDY" -> cpu.Y

\* C23: after a load or an arithmetic instruction, whatever the flags were
\* before, Zero is set exactly when the result byte is 0 and Negative
\* exactly when bit 7 of the result byte is 1.
C23_ZeroNegativeFollowResult ==
    (hist.op = "step" /\ ~fault /\ hist.i.op \in {"LDA", "LDX", "LDY", "ADC"}) =>
       /\ Flags_contains(cpu.P, Flag_Z) <=> (ResultOf(hist.i) = 0)
       /\ Flags_contains(cpu.P, Flag_N) <=> (Bit(ResultOf(hist.i), 7) = 1)

----------------------------------------------------------------------------
(* The instructions of SpecStatus, each against the state before it *)

\* the step just taken ran an instruction whose mnemonic is in ops
Ran(ops) == hist'.op = "step" /\ ~fault' /\ hist'.i.op \in ops

\* the operand of the BIT just run: the byte after the opcode, or the byte
\* of the zero page it addresses
BitOperand ==
    IF hist'.i.mode = "Immediate" THEN cpu'.next_opcode
    ELSE read_byte(bus, cpu'.next_opcode).ret

\* C24: BIT leaves Zero set exactly when (A AND operand) is zero, V equal
\* to bit 6 and C equal to bit 7 of the operand, and A unchanged.
C24_BitFlags ==
    [][Ran({"BIT"}) =>
         /\ Flags_contains(cpu'.P, Flag_Z) <=> (BitAnd(cpu.A, BitOperand) = 0)
         /\ Flags_contains(cpu'.P, Flag_V) <=> (Bit(BitOperand, 6) = 1)
         /\ Flags_contains(cpu'.P, Flag_C) <=> (Bit(BitOperand, 7) = 1)
         /\ cpu'.A = cpu.A]_vars

\* Carry in P as a bit
CarryOf(c) == IF Flags_contains(c.P, Flag_C) THEN 1 ELSE 0

\* C25: after a shift or rotate of the accumulator, Carry is the bit shifted
\* out (old bit 7 going left, old bit 0 going right), and a rotate shifts
\* in the Carry that P held before the instruction.
C25_ShiftCarry ==
    [][Ran({"ASL", "ROL", "ROR"}) =>
         /\ CarryOf(cpu') = Bit(cpu.A, IF hist'.i.op = "ROR" THEN 0 ELSE 7)
         /\ hist'.i.op = "ASL" => cpu'.A = (2 * cpu.A) % 256
         /\ hist'.i.op = "ROL" => cpu'.A = (2 * cpu.A + CarryOf(cpu)) % 256
         /\ hist'.i.op = "ROR" => cpu'.A = (cpu.A \div 2) + 128 * CarryOf(cpu)]_vars

\* C26: INX leaves X + 1 and DEX leaves X - 1, modulo 256, whatever carry an
\* earlier operation has left in the ALU or in P.
C26_IncDecByOne ==
    [][/\ Ran({"INX"}) => cpu'.X = (cpu.X + 1) % 256
       /\ Ran({"DEX"}) => cpu'.X = (cpu.X + 255) % 256]_vars

\* the last memory access of the step just taken
LastAccessOfStep == hist'.acc[Len(hist'.acc)]

\* C27: a push writes its byte at the address S and then decrements S by
\* one; a pull increments S by one and then reads at S; S wraps modulo 256.
C27_StackMovesByOne ==
    [][/\ Ran({"PHA", "PHP"}) =>
            /\ LastAccessOfStep[1] = "w" /\ LastAccessOfStep[2] = cpu.S
            /\ cpu'.S = (cpu.S + 255) % 256
       /\ Ran({"PLP"}) =>
            /\ cpu'.S = (cpu.S + 1) % 256
            /\ LastAccessOfStep = <<"r", cpu'.S>>]_vars

----------------------------------------------------------------------------
(* SpecFault: from power-on, jumps in every addressing mode, and requests  *)
(* of an effective address (CPU::calculate_address) in every mode on the   *)
(* state a step has left.                                                  *)

MaxFaultOps == 2

AddressModes ==
    {"Accumulator", "Absolute", "AbsoluteX", "AbsoluteY", "Immediate", "Indirect",
     "XIndirect", "IndirectY", "Relative", "ZeroPage", "ZeroPageX", "ZeroPageY"}

FaultBytes == {0, 16, 255}

InitFault ==
    /\ PowerOn(ROM_BASE)
    /\ checked = TRUE
    /\ arg = NoArg
    /\ res = NoRes

\* CPU::step of JMP(mode)
JumpStep ==
    /\ ~fault
    /\ nops < MaxFaultOps
    /\ \E mode \in AddressModes, b1 \in FaultBytes :
       \E b2 \in (IF mode \in TwoByteModes THEN FaultBytes ELSE {0}) :
         StepOn(Instr("JMP", mode), b1, b2)
    /\ nops' = nops + 1
    /\ UNCHANGED <<checked, arg, res>>

\* CPU::calculate_address(mode) on the current state
RequestAddress ==
    /\ ~fault
    /\ nops < MaxFaultOps
    /\ \E mode \in AddressModes, b2 \in FaultBytes :
       \E m \in {calculate_address(
                   Machine(cpu, IF mode \in TwoByteModes
                                THEN Reveal(bus, cart, cpu.PC, b2) ELSE bus), mode)} :
         /\ cpu' = m.cpu
         /\ bus' = m.bus
         /\ fault' = m.fault
         /\ cart' = cart \cup RomTouched(m.acc)
         /\ hist' = [Hist("address", 0, 0, m.ret, m.acc)
                     EXCEPT !.i = Instr("", mode)]
    /\ nops' = nops + 1
    /\ UNCHANGED <<checked, arg, res>>

NextFault == JumpStep \/ RequestAddress

SpecFault == InitFault /\ [][NextFault]_vars

\* the registers of the bank
Registers(c) == <<c.A, c.X, c.Y, c.S, c.P>>

\* the two fetches of a step from this state return: PC stays a u16 and
\* both bytes are mapped
FetchesComplete ==
    /\ cpu.PC + 2 <= 65535
    /\ ~read_byte(bus, cpu.PC).fault
    /\ ~read_byte(bus, cpu.PC + 1).fault

\* C21: a request of an effective address in Accumulator or Immediate mode
\* faults with no memory access and with PC, the registers and the memory
\* as they were; a jump in a mode other than Absolute or Indirect, once its
\* step has fetched it, faults with no access beyond the two fetches, with
\* PC where those fetches left it, and with the registers and the memory
\* as they were.
C21_IllegalModesFault ==
    [][/\ (hist'.op = "address" /\ hist'.i.mode \in {"Accumulator", "Immediate"}) =>
            /\ fault'
            /\ hist'.acc = <<>>
            /\ cpu' = cpu
            /\ bus' = bus
       /\ (hist'.op = "step" /\ hist'.i.op = "JMP" /\ FetchesComplete
             /\ hist'.i.mode \notin {"Absolute", "Indirect"}) =>
            /\ fault'
            /\ hist'.acc = <<<<"r", cpu.PC>>, <<"r", cpu.PC + 1>>>>
            /\ cpu'.PC = cpu.PC + 2
            /\ Registers(cpu') = Registers(cpu)
            /\ cpu'.address_line = cpu.address_line
            /\ bus'.memory = bus.memory
            /\ bus'.ppu = bus.ppu]_vars

\* an Immediate-mode jump has faulted after a legal jump had moved PC to
\* 0x1000, and an Accumulator-mode address request has faulted
C21_Witness ==
    /\ fault
    /\ \/ hist.op = "step" /\ hist.i = Instr("JMP", "Immediate") /\ cpu.PC = 4098
       \/ hist.op = "address" /\ hist.i.mode = "Accumulator" /\ nops = 2

----------------------------------------------------------------------------
(* SpecDecode: from power-on, CPU::step with instructions::decode as the   *)
(* source has it; the first byte of the program is the opcode arg.a.       *)

\* instructions::decode: the match has the single arm `_ => panic!`
decode(opcode) == [fault |-> TRUE, i |-> NoInstr]

\* CPU::step: two fetches, decode of the opcode fetched, execute
step_decoded(m0) ==
    Then(next(m0), LAMBDA m1 :
    Then(next(IF m1.fault THEN m1 ELSE [m1 EXCEPT !.cpu.opcode = m1.ret]), LAMBDA m2 :
      IF m2.fault THEN m2
      ELSE Then(decode(m2.cpu.opcode), LAMBDA d :
             IF d.fault THEN [m2 EXCEPT !.cpu.next_opcode = m2.ret, !.fault = TRUE]
             ELSE execute([m2 EXCEPT !.cpu.next_opcode = m2.ret], d.i))))

MaxDecodeSteps == 1

InitDecode ==
    /\ \E opcode \in Byte :
         /\ bus = Reveal(load_cartridge(MemoryBus_init, ROM_BASE % 256, ROM_BASE \div 256),
                         {}, ROM_BASE, opcode)
         /\ arg = [NoArg EXCEPT !.a = opcode]
    /\ cpu = CPU_init(bus)
    /\ cart = {0, RESET_VECTOR - ROM_BASE, RESET_VECTOR + 1 - ROM_BASE}
    /\ fault = FALSE
    /\ hist = NoHist
    /\ nops = 0
    /\ checked = TRUE
    /\ res = NoRes

DecodeStep ==
    /\ ~fault
    /\ nops < MaxDecodeSteps
    /\ \E m \in {step_decoded(Machine(cpu, bus))} :
         /\ cpu' = m.cpu
         /\ bus' = m.bus
         /\ fault' = m.fault
         /\ cart' = cart \cup RomTouched(m.acc)
         /\ hist' = Hist("step", cpu.PC, 0, m.ret, m.acc)
    /\ nops' = nops + 1
    /\ UNCHANGED <<checked, arg, res>>

NextDecode == DecodeStep

SpecDecode == InitDecode /\ [][NextDecode]_vars

\* opcodes of the instruction set the core emulates: LDA immediate, NOP,
\* JMP absolute and BRK
DefinedOpcodes == {169, 234, 76, 0}

\* C22: a step on a defined opcode decodes it to an instruction and
\* executes it: it ends without a fault.
C22_DefinedOpcodesDecode ==
    (hist.op = "step" /\ arg.a \in DefinedOpcodes) => ~fault

----------------------------------------------------------------------------
(* SpecBranch: from power-on at different program addresses, one branch    *)
(* instruction with the displacement byte arg.a.  P is 0 at power-on, so   *)
(* BNE, BPL, BCC and BVC are taken and BMI is not.                         *)

MaxBranchSteps == 1

\* the branch at the start of ROM, before a page end, across it, and at
\* the top of the address space
BranchEntries == {32768, 33021, 33022, 65533}

BranchInstructions == {Instr(op, "") : op \in {"BNE", "BPL", "BCC", "BVC", "BMI"}}

InitBranch ==
    /\ \E entry \in BranchEntries : PowerOn(entry)
    /\ checked = TRUE
    /\ arg \in {[NoArg EXCEPT !.a = d] : d \in Byte}
    /\ res = NoRes

BranchStep ==
    /\ ~fault
    /\ nops < MaxBranchSteps
    /\ \E i \in BranchInstructions : StepOn(i, arg.a, 0)
    /\ nops' = nops + 1
    /\ UNCHANGED <<checked, arg, res>>

NextBranch == BranchStep

SpecBranch == InitBranch /\ [][NextBranch]_vars

\* a displacement byte as a signed number
SignExtended(d) == IF d >= 128 THEN d - 256 ELSE d

\* the branch just run was taken: its flag of P had the value it tests for
Taken ==
    \/ hist'.i.op = "BNE" /\ ~Flags_contains(cpu.P, Flag_Z)
    \/ hist'.i.op = "BPL" /\ ~Flags_contains(cpu.P, Flag_N)
    \/ hist'.i.op = "BCC" /\ ~Flags_contains(cpu.P, Flag_C)
    \/ hist'.i.op = "BVC" /\ ~Flags_contains(cpu.P, Flag_V)
    \/ hist'.i.op = "BMI" /\ Flags_contains(cpu.P, Flag_N)

----------------------------------------------------------------------------
(* SpecSbc: from power-on the CPU runs LDA #a, then SET C or CLR C, then   *)
(* SBC #m, for a = arg.a, m = arg.b and the Carry arg.carry_in.            *)

SbcOperands == {0, 1, 15, 127, 128, 254, 255}

SbcProgram ==
    <<Instr("LDA", "Immediate"),
      [op |-> IF arg.carry_in THEN "SET" ELSE "CLR", mode |-> "", flag |-> Flag_C],
      Instr("SBC", "Immediate")>>

\* the byte after each opcode of the program
SbcBytes == <<arg.a, 0, arg.b>>

InitSbc ==
    /\ PowerOn(ROM_BASE)
    /\ checked = TRUE
    /\ arg \in [a : Byte, b : SbcOperands, carry_in : BOOLEAN]
    /\ res = NoRes

SbcStep ==
    /\ ~fault
    /\ nops < Len(SbcProgram)
    /\ StepOn(SbcProgram[nops + 1], SbcBytes[nops + 1], 0)
    /\ nops' = nops + 1
    /\ UNCHANGED <<checked, arg, res>>

NextSbc == SbcStep

SpecSbc == InitSbc /\ [][NextSbc]_vars

\* A - m - (1 - c) as an integer, negative when the subtraction borrows
Difference == arg.a - arg.b - (IF arg.carry_in THEN 0 ELSE 1)

\* C29: SBC with operand m and Carry c leaves A = (A - m - (1 - c)) mod 256,
\* which is add-with-carry(A, complement of m, c), and leaves Carry set
\* exactly when the subtraction needs no borrow.
C29_SbcSubtractsWithBorrow ==
    (hist.i.op = "SBC") =>
       /\ ~fault
       /\ cpu.A = (Difference + 256) % 256
       /\ cpu.A = adc(arg.a, 255 - arg.b, arg.carry_in).value
       /\ Flags_contains(cpu.P, Flag_C) <=> (Difference >= 0)

\* 0 - 1 with Carry set has borrowed: A = 0xff and Carry is clear
C29_Witness ==
    /\ hist.i.op = "SBC" /\ arg.a = 0 /\ arg.b = 1 /\ arg.carry_in
    /\ cpu.A = 255 /\ ~Flags_contains(cpu.P, Flag_C)

----------------------------------------------------------------------------
(* SpecBrk: power-on with a cartridge whose bytes at 0xFFFE and 0xFFFF     *)
(* (the vector BRK reads) are arg.a and arg.b, then BRK.                   *)

MaxBrkSteps == 1

BRK_VECTOR == 65534

BrkVectorBytes == {0, 1, 18, 52, 128, 171, 254, 255}

InitBrk ==
    /\ \E low \in BrkVectorBytes, high \in BrkVectorBytes :
         /\ bus = Reveal(Reveal(load_cartridge(MemoryBus_init, ROM_BASE % 256,
                                               ROM_BASE \div 256),
                                {}, BRK_VECTOR, low),
                         {}, BRK_VECTOR + 1, high)
         /\ arg = [NoArg EXCEPT !.a = low, !.b = high]
    /\ cpu = CPU_init(bus)
    /\ cart = {RESET_VECTOR - ROM_BASE, RESET_VECTOR + 1 - ROM_BASE,
               BRK_VECTOR - ROM_BASE, BRK_VECTOR + 1 - ROM_BASE}
    /\ fault = FALSE
    /\ hist = NoHist
    /\ nops = 0
    /\ checked = TRUE
    /\ res = NoRes

BrkStep ==
    /\ ~fault
    /\ nops < MaxBrkSteps
    /\ StepOn(Instr("BRK", ""), 0, 0)
    /\ nops' = nops + 1
    /\ UNCHANGED <<checked, arg, res>>

NextBrk == BrkStep

SpecBrk == InitBrk /\ [][NextBrk]_vars

\* C30: BRK leaves PC = (byte at 0xFFFF << 8) | (byte at 0xFFFE), for every
\* pair of vector bytes.
C30_BrkVector ==
    (hist.i.op = "BRK" /\ ~fault) => cpu.PC = arg.b * 256 + arg.a

----------------------------------------------------------------------------
(* The length of an instruction, against the state before its step *)

\* the instructions that load PC: jumps, calls, returns and BRK
TransferInstructions == {"JMP", "JSR", "RTS", "RTI", "BRK"}

\* the flag a branch tests, and the value it branches on
BranchTests ==
    [BCC |-> <<Flag_C, FALSE>>, BCS |-> <<Flag_C, TRUE>>,
     BNE |-> <<Flag_Z, FALSE>>, BEQ |-> <<Flag_Z, TRUE>>,
     BPL |-> <<Flag_N, FALSE>>, BMI |-> <<Flag_N, TRUE>>,
     BVC |-> <<Flag_V, FALSE>>, BVS |-> <<Flag_V, TRUE>>]

\* instruction i, run with the flags p, is a branch that is taken
BranchTaken(i, p) ==
    /\ i.op \in DOMAIN BranchTests
    /\ Flags_contains(p, BranchTests[i.op][1]) = BranchTests[i.op][2]

\* the number of operand bytes that follow the opcode of instruction i
OperandLength(i) ==
    CASE i.op \in DOMAIN BranchTests -> 1
      [] i.mode \in {"", "Accumulator"} -> 0
      [] i.mode \in TwoByteModes -> 2
      [] OTHER -> 1

\* C31: an instruction that is not a jump, call, return, BRK or taken
\* branch leaves PC at the address of its opcode + 1 + the number of
\* operand bytes of its addressing mode.
C31_PcAdvancesByLength ==
    [][(/\ hist'.op = "step" /\ ~fault'
        /\ hist'.i.op \notin TransferInstructions
        /\ ~BranchTaken(hist'.i, cpu.P)) =>
         cpu'.PC = cpu.PC + 1 + OperandLength(hist'.i)]_vars

----------------------------------------------------------------------------
(* SpecTopPages: as SpecIndexed, with the absolute indexed modes and       *)
(* operands in the last two pages of the address space.                    *)

\* the high byte of a two-byte operand: the pages 0xFE00 and 0xFF00
TopPages == {254, 255}

TopPageInstructions ==
    {Instr(op, mode) : op \in {"LDA", "STA"}, mode \in {"AbsoluteX", "AbsoluteY"}}

TopPageAccess ==
    /\ ~fault
    /\ nops > 0
    /\ nops < MaxIndexedSteps
    /\ \E i \in TopPageInstructions, high \in TopPages : StepOn(i, arg.a, high)
    /\ nops' = nops + 1
    /\ UNCHANGED <<checked, arg, res>>

NextTopPages == LoadIndex \/ TopPageAccess

SpecTopPages == InitIndexed /\ [][NextTopPages]_vars

\* the two-byte operand HHLL of the step just taken: the byte after the
\* opcode and the byte calculate_address has fetched after it
OperandWord == Word(read_byte(bus, (cpu.PC + 65535) % 65536).ret, cpu.next_opcode)

\* C32: with AbsoluteX and AbsoluteY the effective address is
\* (HHLL + index register) mod 0x10000, and it is the address the
\* instruction accesses.
C32_AbsoluteIndexedAdds16Bits ==
    (hist.i.mode \in {"AbsoluteX", "AbsoluteY"} /\ ~fault) =>
       /\ cpu.next_opcode = arg.a
       /\ cpu.address_line = (OperandWord + IndexOf(hist.i.mode)) % 65536
       /\ LastAccess = cpu.address_line

----------------------------------------------------------------------------
(* The PPU's frame counters over the run of SpecClock *)

\* C33: the scanline counter stays within 0-311 and the cycle counter
\* within 0-340; when the cycle counter wraps the scanline advances by one
\* modulo 312, and the scanline counter returns to 0 only from line 311.
C33_FrameIs312By341 ==
    [][/\ bus'.ppu.scanline \in 0..311
       /\ bus'.ppu.cycles \in 0..340
       /\ bus'.ppu.cycles < bus.ppu.cycles =>
            bus'.ppu.scanline = (bus.ppu.scanline + 1) % 312
       /\ (bus'.ppu.scanline = 0 /\ bus.ppu.scanline # 0) =>
            bus.ppu.scanline = 311]_vars

----------------------------------------------------------------------------
(* The compare instructions of SpecStatus *)

\* the flags a compare has no part in
ComparePreserved == {Flag_V, Flag_I, Flag_D, Flag_B}

\* C34: a compare leaves the V, I, D and B flags of P as they were just
\* before it, leaves A, X and Y unchanged and writes nothing to memory.
C34_CompareKeepsOtherFlags ==
    [][Ran({"CMP", "CPX", "CPY"}) =>
         /\ \A f \in ComparePreserved :
              Flags_contains(cpu'.P, f) <=> Flags_contains(cpu.P, f)
         /\ <<cpu'.A, cpu'.X, cpu'.Y>> = <<cpu.A, cpu.X, cpu.Y>>
         /\ \A k \in DOMAIN hist'.acc : hist'.acc[k][1] = "r"]_vars

----------------------------------------------------------------------------
(* SpecUnmapped: the accesses the CPU makes, MemoryBus::read_byte and      *)
(* MemoryBus::write_byte, applied from power-on to the work RAM, a PPU     *)
(* register, the DMA trigger, the cartridge and the addresses between      *)
(* 0x4000 and 0x7FFF that map to nothing.                                  *)

MaxUnmappedOps == 3

\* the range between the PPU's registers and the cartridge
UNMAPPED_FIRST == PPU_LAST + 1
UNMAPPED_LAST == ROM_BASE - 1

\* 0x4000, 0x4013 and 0x4015 around the DMA trigger, 0x5000, 0x7fff
UnmappedAddresses == {UNMAPPED_FIRST, OAMDMA - 1, OAMDMA + 1, 20480, UNMAPPED_LAST}

ByteWriteAddresses == UnmappedAddresses \cup {0, PPU_FIRST, OAMDMA, ROM_BASE}

ByteReadAddresses == {0, UNMAPPED_FIRST, OAMDMA, UNMAPPED_LAST, ROM_BASE}

ByteValues == {1, 2}

InitUnmapped ==
    /\ PowerOn(ROM_BASE)
    /\ checked = TRUE
    /\ arg = NoArg
    /\ res = NoRes

ByteRead ==
    /\ ~fault
    /\ nops < MaxUnmappedOps
    /\ \E address \in ByteReadAddresses :
         \E r \in {read_byte(bus, address)} :
             /\ bus' = r.bus
             /\ fault' = r.fault
             /\ hist' = Hist("read_byte", address, 0, r.ret, <<>>)
    /\ nops' = nops + 1
    /\ UNCHANGED <<cpu, cart, checked, arg, res>>

ByteWrite ==
    /\ ~fault
    /\ nops < MaxUnmappedOps
    /\ \E address \in ByteWriteAddresses, value \in ByteValues :
         \E r \in {write_byte(bus, address, value)} :
             /\ bus' = r.bus
             /\ fault' = r.fault
             /\ hist' = Hist("write_byte", address, value, 0, <<>>)
    /\ nops' = nops + 1
    /\ UNCHANGED <<cpu, cart, checked, arg, res>>

NextUnmapped == ByteRead \/ ByteWrite

SpecUnmapped == InitUnmapped /\ [][NextUnmapped]_vars

\* the address is in 0x4000-0x7FFF
InGap(address) == address >= UNMAPPED_FIRST /\ address <= UNMAPPED_LAST

\* C35: a write at an address of 0x4000-0x7FFF other than 0x4014 returns
\* and leaves the whole bus (RAM, ROM, PPU) as it was, the contract
\* operation write adding its one tick and nothing else; a read at any
\* address of 0x4000-0x7FFF faults.
C35_UnmappedWriteIgnoredReadFaults ==
    [][/\ (hist'.op = "write_byte" /\ InGap(hist'.a) /\ hist'.a # OAMDMA) =>
            /\ ~fault'
            /\ bus' = bus
            /\ write(bus, hist'.a, hist'.b) =
                 [bus |-> tick(bus), ret |-> 0, fault |-> FALSE]
       /\ (hist'.op = "read_byte" /\ InGap(hist'.a)) =>
            (fault' /\ bus' = bus)]_vars

\* a write at 0x7fff has returned with the RAM and a PPU register holding
\* what earlier writes put there, or a read of the DMA trigger has faulted
C35_Witness ==
    \/ /\ hist.op = "write_byte" /\ hist.a = UNMAPPED_LAST /\ ~fault
       /\ Array_get(bus.memory, 0) = 2 /\ bus.ppu.registers.cr1 = 1
    \/ /\ hist.op = "read_byte" /\ hist.a = OAMDMA /\ fault

----------------------------------------------------------------------------
(* The OAM address register over the runs of SpecBus *)

OAMADDR == 8195

\* C36: a write of k to the OAM-address register makes k the address of
\* the next OAM store, and a DMA that follows it places byte i of its page
\* at OAM[(k + i) mod 256].
C36_OamAddressWriteSetsStoreAddress ==
    [][/\ (hist'.op = "write" /\ hist'.a = OAMADDR /\ ~fault') =>
            bus'.ppu.oam_address = hist'.b
       /\ (/\ hist.op = "write" /\ hist.a = OAMADDR
           /\ hist'.op = "write" /\ hist'.a = OAMDMA /\ ~fault') =>
            \A i \in 0..(PAGE_SIZE - 1) :
               bus'.ppu.oam_data[(hist.b + i) % OAM_SIZE] =
                 read_byte(bus, PAGE_SIZE * hist'.b + i).ret]_vars

====
